---------------------------- MODULE Spec2Model ----------------------------
(***************************************************************************)
(* Hogbom_CLEAN and CS_CLEAN of 2_14_CLEAN_in_1D.ipynb as a state machine. *)
(*                                                                         *)
(* Arrays are sequences (Python index k is sequence index k+1).  Array     *)
(* values are exact rationals [n, d] in lowest terms, so that the float    *)
(* comparisons of the code (Ipsf==1.0, abs(IR)==abs(IR).max(), > tol) are  *)
(* decided on the real values; float rounding is not modelled.             *)
(***************************************************************************)
EXTENDS Integers, Sequences, FiniteSets

VARIABLES
    args,      \* the call: entry point and the argument values as supplied
    pc,        \* position of the run
    err,       \* exception that ended the run ("" when none)
    Ipsf,      \* the PSF array object handed in by the caller
    IR,        \* residual array (Hogbom updates it in place)
    IM,        \* Hogbom's model array
    i,         \* Hogbom's iteration counter
    p,         \* result of the last peak search: the set of argwhere indices
    Npsfmax,   \* argwhere(Ipsf == 1.0): a set of indices
    gamma,     \* Hogbom's loop gain
    tol,       \* Hogbom's tolerance
    maxiter,   \* Hogbom's iteration cap
    maxPSF,    \* CS_CLEAN: Ipsf.max() before normalisation
    IMmajor,   \* CS_CLEAN: accumulated model
    iMajor,    \* CS_CLEAN: its counter i
    warnings,  \* number of lines printed by print("Warning maximum ...")
    calls,     \* number of calls made with the PSF array so far
    fitI       \* fit_Gaussian_1D: its index array I, a set of indices

vars == <<args, pc, err, Ipsf, IR, IM, i, p, Npsfmax, gamma, tol, maxiter,
          maxPSF, IMmajor, iMajor, warnings, calls, fitI>>

-----------------------------------------------------------------------------
(* Bounds of the model *)

\* largest maxiter handed to a direct Hogbom_CLEAN call; also the number of
\* minor iterations the model follows inside one Hogbom_CLEAN call
MaxIter == 3

\* largest maxmajoriter handed to CS_CLEAN
MaxMajorIter == 1

\* number of CS_CLEAN calls a caller makes with one PSF array
MaxCalls == 2

\* largest denominator of a residual value from which the model follows a
\* further subtraction (the values are exact; TLC's integers have 32 bits)
MaxDenominator == 10000000

-----------------------------------------------------------------------------
(* Exact rational arithmetic *)

Abs(x) == IF x < 0 THEN -x ELSE x

RECURSIVE GCD(_, _)
GCD(a, b) == IF b = 0 THEN a ELSE GCD(b, a % b)

Q(n, d) == LET g == GCD(Abs(n), d) IN [n |-> n \div g, d |-> d \div g]

Zero == [n |-> 0, d |-> 1]
One == [n |-> 1, d |-> 1]

RNeg(a) == [n |-> -a.n, d |-> a.d]

RAbs(a) == [n |-> Abs(a.n), d |-> a.d]

RAdd(a, b) ==
    LET g == GCD(a.d, b.d)
        L == (a.d \div g) * b.d
    IN  Q(a.n * (L \div a.d) + b.n * (L \div b.d), L)

RSub(a, b) == RAdd(a, RNeg(b))

RMul(a, b) ==
    LET g1 == GCD(Abs(a.n), b.d)
        g2 == GCD(Abs(b.n), a.d)
    IN  [n |-> (a.n \div g1) * (b.n \div g2), d |-> (a.d \div g2) * (b.d \div g1)]

\* a / b for b # 0
RDiv(a, b) ==
    RMul(a, IF b.n > 0 THEN [n |-> b.d, d |-> b.n] ELSE [n |-> -b.d, d |-> -b.n])

RLt(a, b) ==
    LET g == GCD(a.d, b.d)
    IN  a.n * (b.d \div g) < b.n * (a.d \div g)

RLe(a, b) == ~RLt(b, a)

-----------------------------------------------------------------------------
(* numpy operations used by the two functions *)

\* np.zeros([n])
Zeros(n) == [k \in 1..n |-> Zero]

\* np.argwhere(a == v): the indices (0-based) where a equals v
ArgWhere(a, v) == {k \in 0..(Len(a) - 1) : a[k + 1] = v}

\* abs(a)
AbsArr(a) == [k \in 1..Len(a) |-> RAbs(a[k])]

\* a.max()
ArrMax(a) ==
    CHOOSE m \in {a[k] : k \in 1..Len(a)} : \A k \in 1..Len(a) : RLe(a[k], m)

\* np.argwhere(abs(a) == abs(a).max()).squeeze(): one index when the maximum
\* is attained once (a 0-d array), an array of several indices otherwise
PeakSearch(a) == ArgWhere(AbsArr(a), ArrMax(AbsArr(a)))

\* a 0-d index array used as an index
IsScalar(s) == Cardinality(s) = 1
Scalar(s) == CHOOSE k \in s : TRUE

\* a[start:stop] with Python's treatment of negative and too large bounds
SliceBound(b, n) == IF b < 0 THEN (IF b + n < 0 THEN 0 ELSE b + n)
                    ELSE (IF b > n THEN n ELSE b)
Slice(a, start, stop) ==
    LET s == SliceBound(start, Len(a))
        e == SliceBound(stop, Len(a))
    IN  IF e <= s THEN << >> ELSE [k \in 1..(e - s) |-> a[s + k]]

\* whether an array of length m broadcasts against one of length n
Broadcasts(m, n) == m = n \/ m = 1

\* the values of the array are within the precision the model follows
Followed(a) == \A k \in 1..Len(a) : a[k].d <= MaxDenominator

-----------------------------------------------------------------------------
(* Hogbom_CLEAN *)

\* gamma=0.1 and tol=0.1, the defaults of Hogbom_CLEAN
DefaultGamma == Q(1, 10)
DefaultTol == Q(1, 10)
\* maxiter=200
DefaultMaxiter == 200

\* Window shifted by the peak index in the wrong direction
WindowMirrored(psf, npsfmax, pp, npix) ==
    Slice(psf, npsfmax + pp - npix + 1, npsfmax + pp + 1)

\* Window with the shift by the peak index dropped
WindowUnshifted(psf, npsfmax, pp, npix) == Slice(psf, npsfmax, npsfmax + npix)

\* Ipsf[int(Npsfmax - p):int(Npsfmax + Npix - p)]
Window(psf, npsfmax, pp, npix) == Slice(psf, npsfmax - pp, npsfmax + npix - pp)

\* ResidualUpdate with += in place of -=
ResidualUpdateAdd(ir, g, ipeak, w) ==
    [k \in 1..Len(ir) |->
        RAdd(ir[k], RMul(RMul(g, ipeak), IF Len(w) = 1 THEN w[1] ELSE w[k]))]

\* IR -= gamma*Ipeak*window, the window broadcast when it has one element
ResidualUpdate(ir, g, ipeak, w) ==
    [k \in 1..Len(ir) |->
        RSub(ir[k], RMul(RMul(g, ipeak), IF Len(w) = 1 THEN w[1] ELSE w[k]))]

\* ModelUpdate with the loop gain dropped: IM[p] += Ipeak
ModelUpdateNoGain(im, pp, g, ipeak) ==
    [im EXCEPT ![pp + 1] = RAdd(im[pp + 1], ipeak)]

\* IM[p] += gamma*Ipeak
ModelUpdate(im, pp, g, ipeak) ==
    [im EXCEPT ![pp + 1] = RAdd(im[pp + 1], RMul(g, ipeak))]

\* abs(Ipeak) > tol and i <= maxiter
LoopCond(ipeak, t, it, mi) == RLt(t, RAbs(ipeak)) /\ it <= mi

\* if i >= maxiter
WarnCond(it, mi) == it >= mi

\* Ipeak = IR[p], p a single index
Ipeak == IR[Scalar(p) + 1]

\* the ValueError of "abs(Ipeak) > tol and ..." when Ipeak is an array of
\* several elements, and the errors of the subtraction statement
Raise(e) ==
    /\ pc' = "raised"
    /\ err' = e
    /\ UNCHANGED <<args, Ipsf, IR, IM, i, p, Npsfmax, gamma, tol, maxiter,
                   maxPSF, IMmajor, iMajor, warnings, calls, fitI>>

\* the statements before the loop, for the arguments (ir, psf, g, t, mi)
HogbomEntry(ir, psf, g, t, mi) ==
    /\ i' = 1
    /\ Npsfmax' = ArgWhere(psf, One)
    /\ IM' = Zeros(Len(ir))
    /\ IR' = ir
    /\ p' = PeakSearch(ir)
    /\ gamma' = g
    /\ tol' = t
    /\ maxiter' = mi
    /\ pc' = "h_loop"

\* a direct call Hogbom_CLEAN(IR, Ipsf, gamma, tol, maxiter)
HogbomCall ==
    /\ pc = "start"
    /\ args.call = "hogbom"
    /\ HogbomEntry(args.IR, Ipsf, args.gamma, args.tol, args.maxiter)
    /\ UNCHANGED <<args, err, Ipsf, maxPSF, IMmajor, iMajor, warnings, calls, fitI>>

\* the loop test on a peak search that returned several indices
HogbomRaise ==
    /\ pc = "h_loop"
    /\ ~IsScalar(p)
    /\ Raise("ValueError")

\* one pass through the loop body
HogbomIterate ==
    /\ pc = "h_loop"
    /\ IsScalar(p)
    /\ LoopCond(Ipeak, tol, i, maxiter)
    /\ i <= MaxIter
    /\ Followed(IR)
    /\ IF ~IsScalar(Npsfmax)
       THEN Raise("TypeError")
       ELSE LET w == Window(Ipsf, Scalar(Npsfmax), Scalar(p), Len(IR))
            IN  IF ~Broadcasts(Len(w), Len(IR))
                THEN Raise("ValueError")
                ELSE /\ IR' = ResidualUpdate(IR, gamma, Ipeak, w)
                     /\ IM' = ModelUpdate(IM, Scalar(p), gamma, Ipeak)
                     /\ p' = PeakSearch(IR')
                     /\ i' = i + 1
                     /\ UNCHANGED <<args, pc, err, Ipsf, Npsfmax, gamma, tol,
                                    maxiter, maxPSF, IMmajor, iMajor, warnings, calls, fitI>>

\* the loop test fails: the warning, and return IM, IR
HogbomReturn ==
    /\ pc = "h_loop"
    /\ IsScalar(p)
    /\ ~LoopCond(Ipeak, tol, i, maxiter)
    /\ warnings' = IF WarnCond(i, maxiter) THEN warnings + 1 ELSE warnings
    /\ pc' = IF args.call = "hogbom" THEN "h_done" ELSE "cs_major"
    /\ UNCHANGED <<args, err, Ipsf, IR, IM, i, p, Npsfmax, gamma, tol, maxiter,
                   maxPSF, IMmajor, iMajor, calls, fitI>>

-----------------------------------------------------------------------------
(* Complex vectors and the products with the Fourier kernel F *)

Cx(r) == [re |-> r, im |-> Zero]

Conj(z) == [re |-> z.re, im |-> RNeg(z.im)]

CAdd(y, z) == [re |-> RAdd(y.re, z.re), im |-> RAdd(y.im, z.im)]

CSub(y, z) == [re |-> RSub(y.re, z.re), im |-> RSub(y.im, z.im)]

CMul(y, z) ==
    [re |-> RSub(RMul(y.re, z.re), RMul(y.im, z.im)),
     im |-> RAdd(RMul(y.re, z.im), RMul(y.im, z.re))]

RECURSIVE CSum(_)
CSum(zs) == IF zs = << >> THEN Cx(Zero) ELSE CAdd(zs[1], CSum(Tail(zs)))

\* np.dot(F.conj().T, V), F a matrix (one row per sample, one column per pixel)
AdjointDot(F, V) ==
    [j \in 1..Len(F[1]) |-> CSum([u \in 1..Len(F) |-> CMul(Conj(F[u][j]), V[u])])]

\* np.dot(F, I)
ForwardDot(F, I) ==
    [u \in 1..Len(F) |-> CSum([j \in 1..Len(I) |-> CMul(F[u][j], Cx(I[j]))])]

\* np.real(v)
RealPart(v) == [k \in 1..Len(v) |-> v[k].re]

\* a / s and a + b and v - w on arrays
DivArr(a, s) == [k \in 1..Len(a) |-> RDiv(a[k], s)]
AddArr(a, b) == [k \in 1..Len(a) |-> RAdd(a[k], b[k])]
CSubArr(v, w) == [k \in 1..Len(v) |-> CSub(v[k], w[k])]

-----------------------------------------------------------------------------
(* CS_CLEAN *)

\* Ipsf /= maxPSF
Normalise(psf, m) == DivArr(psf, m)

\* np.real(np.dot(F.conj().T,Vobs))/maxPSF
DirtyImage(F, Vobs, m) == DivArr(RealPart(AdjointDot(F, Vobs)), m)

\* MajorResidual with Vres = Vobs + Vpred
MajorResidualAdd(F, Vobs, imm, m) ==
    LET Vpred == ForwardDot(F, imm)
        Vres == [k \in 1..Len(Vobs) |-> CAdd(Vobs[k], Vpred[k])]
    IN  DivArr(RealPart(AdjointDot(F, Vres)), m)

\* Vpred = np.dot(F,IMmajor); Vres = Vobs - Vpred;
\* IR = np.real(np.dot(F.conj().T,Vres))/maxPSF
MajorResidual(F, Vobs, imm, m) ==
    LET Vpred == ForwardDot(F, imm)
        Vres == CSubArr(Vobs, Vpred)
    IN  DivArr(RealPart(AdjointDot(F, Vres)), m)

\* abs(Ipeak) > majortol and i <= maxmajoriter
MajorCond(ipeak, mt, it, mmi) == RLt(mt, RAbs(ipeak)) /\ it <= mmi

\* tol=peak_Factor*Ipeak
MinorTol(pf, ipeak) == RMul(pf, ipeak)

\* the statements of CS_CLEAN before its loop
CSCall ==
    /\ pc = "start"
    /\ args.call = "cs"
    /\ maxPSF' = ArrMax(Ipsf)
    /\ Ipsf' = Normalise(Ipsf, maxPSF')
    /\ IR' = DirtyImage(args.F, args.Vobs, maxPSF')
    /\ IMmajor' = Zeros(Len(IR'))
    /\ iMajor' = 0
    /\ p' = PeakSearch(IR')
    /\ pc' = "cs_loop"
    /\ UNCHANGED <<args, err, IM, i, Npsfmax, gamma, tol, maxiter, warnings, calls, fitI>>

\* the loop test of CS_CLEAN on a peak search that returned several indices
CSRaise ==
    /\ pc = "cs_loop"
    /\ ~IsScalar(p)
    /\ Raise("ValueError")

\* the loop test holds: Hogbom_CLEAN(IR,Ipsf,tol=peak_Factor*Ipeak) is entered
CSMinor ==
    /\ pc = "cs_loop"
    /\ IsScalar(p)
    /\ MajorCond(Ipeak, args.majortol, iMajor, args.maxmajoriter)
    /\ HogbomEntry(IR, Ipsf, DefaultGamma, MinorTol(args.peak_Factor, Ipeak),
                   DefaultMaxiter)
    /\ UNCHANGED <<args, err, Ipsf, maxPSF, IMmajor, iMajor, warnings, calls, fitI>>

\* Hogbom_CLEAN has returned: the rest of the loop body
CSMajor ==
    /\ pc = "cs_major"
    /\ IMmajor' = AddArr(IMmajor, IM)
    /\ IR' = MajorResidual(args.F, args.Vobs, IMmajor', maxPSF)
    /\ p' = PeakSearch(IR')
    /\ iMajor' = iMajor + 1
    /\ pc' = "cs_loop"
    /\ UNCHANGED <<args, err, Ipsf, IM, i, Npsfmax, gamma, tol, maxiter, maxPSF,
                   warnings, calls, fitI>>

\* the loop test fails: return IMmajor, IR
CSReturn ==
    /\ pc = "cs_loop"
    /\ IsScalar(p)
    /\ ~MajorCond(Ipeak, args.majortol, iMajor, args.maxmajoriter)
    /\ pc' = "cs_done"
    /\ UNCHANGED <<args, err, Ipsf, IR, IM, i, p, Npsfmax, gamma, tol, maxiter,
                   maxPSF, IMmajor, iMajor, warnings, calls, fitI>>

\* the caller hands the PSF array of a returned CS_CLEAN run to another
\* CS_CLEAN run with the same visibilities, operator and settings; the frame
\* of the returned call is gone
CSCallAgain ==
    /\ pc = "cs_done"
    /\ calls < MaxCalls
    /\ calls' = calls + 1
    /\ pc' = "start"
    /\ IR' = << >>
    /\ IM' = << >>
    /\ i' = 0
    /\ p' = {}
    /\ Npsfmax' = {}
    /\ gamma' = Zero
    /\ tol' = Zero
    /\ maxiter' = 0
    /\ maxPSF' = Zero
    /\ IMmajor' = << >>
    /\ iMajor' = 0
    /\ UNCHANGED <<args, err, Ipsf, warnings, fitI>>

-----------------------------------------------------------------------------
(* The calls that are followed *)

\* pixel values of the residuals handed to Hogbom_CLEAN
ResidualValues == {Q(-2, 1), Zero, One, Q(3, 1)}
Residuals == {<<a, b, c>> : a, b, c \in ResidualValues}

Half == Q(1, 2)

\* PSFs handed to Hogbom_CLEAN: 2*Npix+1 samples with the peak 1.0 in the
\* middle (as lpsf / Ipsf2 are built), and arrays that are not of that form
DeltaPSF == <<Zero, Zero, Zero, One, Zero, Zero, Zero>>
TrianglePSF == <<Zero, Zero, Half, One, Half, Zero, Zero>>
SidelobePSF == <<Zero, Half, RNeg(Half), One, RNeg(Half), Half, Zero>>
RawPSF == <<Zero, Zero, Zero, Q(2, 1), Zero, Zero, Zero>>
TwoPeakPSF == <<Zero, One, Zero, One, Zero, One, Zero>>
ShortPSF == <<Half, One, Half>>
EdgePSF == <<Zero, Half, One>>
HogbomPSFs == {DeltaPSF, TrianglePSF, SidelobePSF, RawPSF, TwoPeakPSF,
               ShortPSF, EdgePSF}

Gains == {DefaultGamma, Half, One, Q(3, 2)}
Tols == {DefaultTol, One, Q(-1, 1)}

HogbomCalls ==
    [call : {"hogbom"}, IR : Residuals, Ipsf : HogbomPSFs, gamma : Gains,
     tol : Tols, maxiter : 1..MaxIter]

\* exp(-2 pi i k/4): the kernel value exp(-2.0*np.pi*1.0j*u*l) for u*l = k/4
Cis4(k) ==
    CASE k % 4 = 0 -> [re |-> One, im |-> Zero]
      [] k % 4 = 1 -> [re |-> Zero, im |-> RNeg(One)]
      [] k % 4 = 2 -> [re |-> RNeg(One), im |-> Zero]
      [] k % 4 = 3 -> [re |-> Zero, im |-> One]

\* F2 = np.exp(-2.0*np.pi*1.0j*np.outer(u[Sindices],l)) for the sampled
\* baselines us and the three pixels l = -1/4, 0, 1/4
Kernel(us) == [u \in 1..Len(us) |-> [j \in 1..3 |-> Cis4(us[u] * (j - 2))]]

\* Ipsf2 = np.real(np.dot(F2psf.conj().T,S2)) on the grid of 2*Npix+1 offsets
\* -3/4 .. 3/4 around the centre
DirtyBeam(us) ==
    [d \in 1..7 |-> CSum([u \in 1..Len(us) |-> Conj(Cis4(us[u] * (d - 4)))]).re]

\* the sampled baselines: two of a period of four (a PSF with sidelobes), one
\* period and two periods (delta PSFs of peak 4 and 8)
Samplings == {<<0, 1>>, <<-1, 0, 1, 2>>, <<-3, -2, -1, 0, 1, 2, 3, 4>>}

\* peak_Factor=0.2 and majortol=0.01, the defaults of CS_CLEAN
DefaultPeakFactor == Q(1, 5)
DefaultMajorTol == Q(1, 100)

PeakFactors == {DefaultPeakFactor, Q(3, 4), Q(9, 10), Q(2, 1)}
MajorTols == {DefaultMajorTol, Q(11, 4)}

\* CS_CLEAN(Vobs, F, Ipsf, peak_Factor, maxmajoriter, majortol) as the
\* notebook calls it: the visibilities are those of a sky (V = F I) and the
\* PSF is the dirty beam of the sampling of F, not yet normalised
CSCalls ==
    {[call |-> "cs", F |-> Kernel(us), Vobs |-> ForwardDot(Kernel(us), sky),
      Ipsf |-> DirtyBeam(us), peak_Factor |-> pf, maxmajoriter |-> mmi,
      majortol |-> mt] :
        us \in Samplings, sky \in Residuals,
        pf \in PeakFactors, mmi \in 0..MaxMajorIter, mt \in MajorTols}

Init ==
    /\ args \in HogbomCalls \cup CSCalls
    /\ pc = "start"
    /\ err = ""
    /\ Ipsf = args.Ipsf
    /\ IR = << >>
    /\ IM = << >>
    /\ i = 0
    /\ p = {}
    /\ Npsfmax = {}
    /\ gamma = Zero
    /\ tol = Zero
    /\ maxiter = 0
    /\ maxPSF = Zero
    /\ IMmajor = << >>
    /\ iMajor = 0
    /\ warnings = 0
    /\ calls = 1
    /\ fitI = {}

Next ==
    \/ HogbomCall
    \/ HogbomRaise
    \/ HogbomIterate
    \/ HogbomReturn
    \/ CSCall
    \/ CSRaise
    \/ CSMinor
    \/ CSMajor
    \/ CSReturn
    \/ CSCallAgain

Spec == Init /\ [][Next]_vars

-----------------------------------------------------------------------------
(* fit_Gaussian_1D *)

\* np.argwhere(Ipsf > 0.5*Ipsf).squeeze(): every sample is compared with half
\* of itself
FitSelection(psf) ==
    {k \in 0..(Len(psf) - 1) : RLt(RMul(Half, psf[k + 1]), psf[k + 1])}

\* number of parameters of Gaussian_1D that curve_fit adjusts (sigma, l)
FitParameters == 2

\* I = ...; data = Ipsf[I]; x = lpsf[I]
FitSelect ==
    /\ pc = "start"
    /\ args.call = "fit"
    /\ fitI' = FitSelection(Ipsf)
    /\ pc' = "fit"
    /\ UNCHANGED <<args, err, Ipsf, IR, IM, i, p, Npsfmax, gamma, tol, maxiter,
                   maxPSF, IMmajor, iMajor, warnings, calls>>

\* opt.curve_fit on fewer data points than parameters raises
FitTooFewData ==
    /\ pc = "fit"
    /\ Cardinality(fitI) < FitParameters
    /\ Raise(IF fitI = {} THEN "ValueError" ELSE "TypeError")

\* opt.curve_fit gives up (the optimiser is not computed: either outcome of a
\* fit on enough data is followed)
FitNoConvergence ==
    /\ pc = "fit"
    /\ Cardinality(fitI) >= FitParameters
    /\ Raise("RuntimeError")

\* opt.curve_fit succeeds; Ipsf_ideal is evaluated, normalised and returned
FitReturn ==
    /\ pc = "fit"
    /\ Cardinality(fitI) >= FitParameters
    /\ pc' = "fit_done"
    /\ UNCHANGED <<args, err, Ipsf, IR, IM, i, p, Npsfmax, gamma, tol, maxiter,
                   maxPSF, IMmajor, iMajor, warnings, calls, fitI>>

\* sample values of the PSFs handed to fit_Gaussian_1D, around the peak 1.0
FitSamples == {Q(-1, 4), Zero, Q(1, 4), Half, Q(3, 4)}

\* normalised PSFs of five samples on the grid lpsf = -2..2
FitPSFs == {<<a, b, One, c, d>> : a, b, c, d \in FitSamples}

FitCalls == [call : {"fit"}, Ipsf : FitPSFs, lpsf : {<<-2, -1, 0, 1, 2>>}]

InitFit ==
    /\ args \in FitCalls
    /\ pc = "start"
    /\ err = ""
    /\ Ipsf = args.Ipsf
    /\ IR = << >>
    /\ IM = << >>
    /\ i = 0
    /\ p = {}
    /\ Npsfmax = {}
    /\ gamma = Zero
    /\ tol = Zero
    /\ maxiter = 0
    /\ maxPSF = Zero
    /\ IMmajor = << >>
    /\ iMajor = 0
    /\ warnings = 0
    /\ calls = 1
    /\ fitI = {}

NextFit ==
    \/ FitSelect
    \/ FitTooFewData
    \/ FitNoConvergence
    \/ FitReturn

SpecFit == InitFit /\ [][NextFit]_vars

-----------------------------------------------------------------------------
(* Vocabulary of the properties *)

HogbomRun == args.call = "hogbom"
CSRun == args.call = "cs"

\* gain in (0, 1]
ValidGain(g) == RLt(Zero, g) /\ RLe(g, One)

\* peak_factor in (0, 1)
ValidPeakFactor(f) == RLt(Zero, f) /\ RLt(f, One)

\* a tolerance is a magnitude: not negative
ValidTol(t) == RLe(Zero, t)

\* max|a|
PeakMag(a) == ArrMax(AbsArr(a))

\* peak 1.0, attained once, at the centre of the array
NormalisedPSF(psf) ==
    /\ ArrMax(psf) = One
    /\ ArgWhere(psf, One) = {(Len(psf) - 1) \div 2}

\* the PSF extends at least npix samples on each side of its centre
ExtendsImage(psf, npix) == Len(psf) >= 2 * npix + 1

\* a Hogbom_CLEAN frame is live: IR, IM, i, p are those of a call
InHogbom == pc \in {"h_loop", "h_done", "cs_major"} \/ (HogbomRun /\ pc = "raised")

\* one pass through the loop body has just been made
IterationStep == pc = "h_loop" /\ i' = i + 1

\* the value at pixel j (0-based) of the PSF window the code subtracts for a
\* component at pixel q
PsfAt(q, j) ==
    LET w == Window(Ipsf, Scalar(Npsfmax), q, Len(IR))
    IN  IF Len(w) = 1 THEN w[1] ELSE w[j + 1]

\* the PSF sample at the offset of pixel j from pixel q, counted from the
\* centre of the PSF array
CentredAt(q, j) == Ipsf[(Len(Ipsf) - 1) \div 2 + (j - q) + 1]

RECURSIVE RSum(_)
RSum(xs) == IF xs = << >> THEN Zero ELSE RAdd(xs[1], RSum(Tail(xs)))

\* (model convolved with the PSF)[j]: every component times its window
Convolved(j) ==
    RSum([q \in 1..Len(IM) |->
            IF IM[q] = Zero THEN Zero ELSE RMul(IM[q], PsfAt(q - 1, j))])

\* the residual array as it was handed to the live Hogbom_CLEAN call
PassedIn ==
    IF HogbomRun THEN args.IR
    ELSE MajorResidual(args.F, args.Vobs, IMmajor, maxPSF)

\* the nonzero pixels of an image
Sources(a) == {k \in 1..Len(a) : a[k] # Zero}

\* point sources with empty pixels between them
IsolatedSources(a) ==
    /\ Sources(a) # {}
    /\ \A k \in Sources(a) : (k + 1) \notin Sources(a)

\* the call's configuration lies outside the ranges of the specification
InvalidConfiguration ==
    IF HogbomRun
    THEN ~ValidGain(args.gamma) \/ ~ValidTol(args.tol)
    ELSE ~ValidPeakFactor(args.peak_Factor) \/ ~ValidTol(args.majortol)

-----------------------------------------------------------------------------
(* The properties *)

\* C1 (as claimed): a Hogbom_CLEAN call with a valid gain makes at most maxiter
\* subtraction steps and ends by returning its model and residual: it never
\* ends in an exception.  (Stated for the inputs of the contract only: a
\* normalised PSF of 2*Npix+1 samples and a tolerance that is not negative.)
C1_TerminatesAndReturns ==
    (/\ HogbomRun
     /\ ValidGain(args.gamma)
     /\ ValidTol(args.tol)
     /\ NormalisedPSF(args.Ipsf)
     /\ ExtendsImage(args.Ipsf, Len(args.IR))) =>
        /\ i - 1 <= args.maxiter
        /\ pc # "raised"

C5_AtMostMaxMajorCycles ==
    (CSRun /\ ~InvalidConfiguration) => iMajor <= args.maxmajoriter

\* C6 (as claimed): a returned Hogbom_CLEAN call has printed the warning
\* exactly when its last peak is still above the tolerance.  (Stated for
\* valid configurations.)
C6_WarningIffNotConverged ==
    (HogbomRun /\ pc = "h_done" /\ ~InvalidConfiguration) =>
        ((warnings > 0) <=> RLt(tol, RAbs(Ipeak)))

\* C7 (as claimed): when CS_CLEAN returns because of the major-cycle cap with
\* the residual peak still above majortol, a warning has been reported.
\* (Stated for valid configurations.)
C7_MajorLimitReported ==
    (/\ CSRun
     /\ pc = "cs_done"
     /\ ~InvalidConfiguration
     /\ iMajor > args.maxmajoriter
     /\ RLt(args.majortol, RAbs(Ipeak))) => warnings > 0

\* C8 (as claimed): the PSF array of the caller keeps the values the caller
\* supplied throughout a run.
C8_PSFUnchanged ==
    Ipsf = args.Ipsf

\* C9 (as claimed): a call with an invalid configuration is rejected before
\* the first iteration: it makes no subtraction step, completes no major cycle
\* and returns no result.
C9_InvalidConfigurationRejected ==
    InvalidConfiguration =>
        /\ i <= 1
        /\ iMajor = 0
        /\ pc \notin {"h_done", "cs_done"}

\* C10 (as claimed): the peak magnitude of the residual computed by a major
\* re-evaluation is never larger than the peak magnitude of the residual the
\* major cycle started from (the previous re-evaluation, or the dirty image).
\* (Stated for valid configurations.)
C10_MajorPeakNonIncreasing ==
    [][(pc = "cs_major" /\ pc' = "cs_loop" /\ ~InvalidConfiguration) =>
            RLe(PeakMag(IR'),
                PeakMag(MajorResidual(args.F, args.Vobs, IMmajor, maxPSF)))]_vars

\* C11 (as claimed): in a Hogbom_CLEAN call made by CS_CLEAN, once the residual
\* peak magnitude is at or below peak_Factor times the peak magnitude of the
\* residual the major cycle started from, no further subtraction is made (the
\* minor cycle ends), whatever the sign of the major peak.  (Stated for valid
\* configurations.)
C11_RelativeToleranceStops ==
    [][(/\ CSRun
        /\ ~InvalidConfiguration
        /\ pc = "h_loop"
        /\ IsScalar(p)
        /\ RLe(RAbs(Ipeak), RMul(args.peak_Factor, PeakMag(PassedIn)))) =>
            i' = i]_vars

\* the first index, in index order, at which abs(a) attains its maximum
FirstPeak(a) ==
    CHOOSE k \in PeakSearch(a) : \A m \in PeakSearch(a) : k <= m

\* C12 (as claimed): after every peak search of Hogbom_CLEAN and of CS_CLEAN
\* the selected peak is a single index, the first index in index order at
\* which the residual attains its maximum absolute value.
C12_FirstIndexSelected ==
    pc \in {"h_loop", "cs_loop"} => p = {FirstPeak(IR)}

\* the PSF has its maximum at one index and extends at least npix samples on
\* each side of it
ExtendsAroundMax(psf, npix) ==
    LET M == ArgWhere(psf, ArrMax(psf))
    IN  /\ IsScalar(M)
        /\ Scalar(M) >= npix
        /\ Len(psf) - 1 - Scalar(M) >= npix

ExactResidualAt(j, model, peak) ==
    LET res(u) ==
            CSub(args.Vobs[u],
                 CSum([k \in 1..Len(model) |-> CMul(args.F[u][k], Cx(model[k]))]))
        back == CSum([u \in 1..Len(args.F) |->
                        CMul(Conj(args.F[u][j]), res(u))])
    IN  RDiv(back.re, peak)

\* C14: whenever CS_CLEAN has returned, after zero or more major cycles, the
\* returned residual is adjoint(Vobs - forward(returned model)) divided by the
\* peak of the PSF the call was handed (on first use of the PSF array, the
\* peak of the caller's PSF).
C14_ReturnsExactResidual ==
    (CSRun /\ pc = "cs_done") =>
        /\ \A j \in 1..Len(IR) : IR[j] = ExactResidualAt(j, IMmajor, maxPSF)
        /\ calls = 1 => maxPSF = ArrMax(args.Ipsf)

\* C14 witness: CS_CLEAN has returned after two major cycles with a PSF that
\* has sidelobes (peak 2 before normalisation), a model and a residual that
\* are not 0
C14_Witness ==
    /\ CSRun
    /\ pc = "cs_done"
    /\ iMajor = 2
    /\ maxPSF = Q(2, 1)
    /\ Sources(IMmajor) # {}
    /\ Sources(IR) # {}

\* C15 (as claimed): the fit data of fit_Gaussian_1D are exactly the PSF
\* samples whose value exceeds half of the PSF's peak value.
C15_FitUsesMainLobe ==
    pc \in {"fit", "fit_done"} =>
        fitI = {k \in 0..(Len(Ipsf) - 1) :
                    RLt(RMul(Half, ArrMax(Ipsf)), Ipsf[k + 1])}

=============================================================================
